---------------------------- MODULE Spec2Model ----------------------------
(* AssetManager: the upload / delete lifecycle of routes/assets.js, the    *)
(* admin routes of routes/admin.js, the two middlewares (auth, role) and   *)
(* the registration / login routes of routes/auth.js, as a state machine.  *)
(* Every `await` of a handler is a point where other requests interleave,  *)
(* so a handler is one action per stretch of code between two awaits.      *)
EXTENDS Integers, Sequences, FiniteSets, TLC

(***************************************************************************)
(* Bounds of the model                                                     *)
(***************************************************************************)
\* the last value of Date.now(), and the number of requests of a behaviour
MaxTime == 1
MaxRequests == 3
MaxRegs == 2

\* the requests, by kind
UploadIds == {1, 2}
DeleteIds == {1, 2}
AdminIds == {1}

(***************************************************************************)
(* Values                                                                  *)
(***************************************************************************)
\* SQL NULL, kept apart from every count
SqlNull == 0 - 1

\* the bearer credentials a request can carry: no Authorization header, a
\* token jwt.verify rejects, or a signed payload {id, role}
NoToken == [kind |-> "none", id |-> 0, role |-> ""]
BadToken == [kind |-> "bad", id |-> 0, role |-> ""]
Jwt(i, r) == [kind |-> "jwt", id |-> i, role |-> r]

UserCreds == {Jwt(1, "user"), Jwt(2, "user")}
UploadCreds == UserCreds \cup {NoToken}
DeleteCreds == UserCreds \cup {BadToken}
AdminCreds == {NoToken, BadToken, Jwt(1, "user"), Jwt(3, "admin"), Jwt(4, "")}

OrigNames == {"a.png"}
MimeTypes == {"image/png", "text/plain"}
ErrMessages == {"", "read ECONNRESET"}

\* req.body.permissions as sent by the client ("" is: field absent)
LifecyclePerms == {""}
PermInputs == {"", "public", "private", "{}", "{\"public\":true}",
               "{\"public\":\"maybe\"}", "null"}

(***************************************************************************)
(* middleware/auth.js and middleware/role.js                               *)
(***************************************************************************)
\* authenticateToken: 0 is next(), otherwise the status it answers
authenticateToken(cred) ==
  IF cred.kind = "none" THEN 401
  ELSE IF cred.kind = "bad" THEN 403
  ELSE 0

\* what the role test of requireRole does with the allow-set
RoleAllowedMut(allowedRoles, role) == TRUE
RoleAllowed(allowedRoles, role) == role \in allowedRoles

\* requireRole(...allowedRoles): 0 is next(), otherwise the status
requireRole(allowedRoles, cred) ==
  IF cred.role = "" THEN 401
  ELSE IF ~RoleAllowed(allowedRoles, cred.role) THEN 403
  ELSE 0

\* the middleware chain of an /admin route
AdminChain(cred) ==
  IF authenticateToken(cred) # 0 THEN authenticateToken(cred)
  ELSE requireRole({"admin"}, cred)

(***************************************************************************)
(* Names, keys and locators of routes/assets.js                            *)
(***************************************************************************)
AmazonSep == ".amazonaws.com/"

\* multer diskStorage filename: `${Date.now()}-${file.originalname}`
MulterFilename(t, orig) == <<ToString(t), "-", orig>>

\* path.join(uploadDir, filename)
StagedPath(filename) == <<"/app/uploads/">> \o filename

\* `uploads/${Date.now()}-${filename}`
S3Key(t, filename) == <<"uploads/", ToString(t), "-">> \o filename

\* `https://${bucket}.s3.${region}.amazonaws.com/${s3Key}`
FileUrl(key) == <<"https://bucket.s3.region", AmazonSep>> \o key

\* String.prototype.split(sep): the pieces between the occurrences of sep
RECURSIVE SplitFrom(_, _, _)
SplitFrom(s, sep, cur) ==
  IF s = <<>> THEN <<cur>>
  ELSE IF Head(s) = sep THEN <<cur>> \o SplitFrom(Tail(s), sep, <<>>)
  ELSE SplitFrom(Tail(s), sep, Append(cur, Head(s)))

Split(s, sep) == SplitFrom(s, sep, <<>>)

\* fileUrl.split(".amazonaws.com/")[1]
KeyOfUrl(url) == Split(url, AmazonSep)[2]

Filenames == {MulterFilename(t, o) : t \in 0..MaxTime, o \in OrigNames}

AllowedMimeTypes == {"image/jpeg", "image/png", "application/pdf"}

\* multer fileFilter
fileFilter(mimetype) == mimetype \in AllowedMimeTypes

\* JSON.parse(req.body.permissions) on the inputs of PermInputs:
\* "throws", "null", or the JSON text of the object's member `public`
\* ("absent" when the object has none)
JsonParsePermissions(s) ==
  CASE s = "null" -> "null"
    [] s = "{}" -> "absent"
    [] s = "{\"public\":true}" -> "true"
    [] s = "{\"public\":\"maybe\"}" -> "\"maybe\""
    [] OTHER -> "throws"

\* lines 64-72: the permissions object the handler ends with, by its
\* member `public`; "null" when the body parsed to null
ParsePermissions(s) ==
  IF s = "" THEN "false"
  ELSE IF JsonParsePermissions(s) = "throws"
       THEN (IF s = "public" THEN "true" ELSE "false")
       ELSE JsonParsePermissions(s)

\* error.message || "Error uploading file"
UploadMessage(msg) == IF msg = "" THEN "Error uploading file" ELSE msg

(***************************************************************************)
(* State                                                                   *)
(***************************************************************************)
VARIABLES
  now,      \* Date.now()
  assets,   \* table assets: a set of rows
  s3,       \* the bucket: the keys that hold an object
  disk,     \* the local file system: the paths that exist
  up,       \* POST /assets/upload requests
  del,      \* DELETE /assets/:filename requests
  adm,      \* /admin requests
  users,    \* table users
  nextUid,  \* the SERIAL of users.id
  authResp  \* the latest response of /auth, /profile or /admin/users

vars == <<now, assets, s3, disk, up, del, adm, users, nextUid, authResp>>

assetVars == <<now, assets, s3, disk, up, del, adm>>
authVars == <<users, nextUid, authResp>>

IdleUpload ==
  [pc |-> "idle", cred |-> NoToken, mime |-> "", perm |-> "", filename |-> <<>>,
   key |-> <<>>, opened |-> FALSE, status |-> 0, message |-> "", log |-> "",
   failed |-> "none"]

IdleDelete ==
  [pc |-> "idle", cred |-> NoToken, filename |-> <<>>, removed |-> {},
   own |-> {}, foreign |-> {}, key |-> <<>>, dbfail |-> FALSE, status |-> 0,
   s3calls |-> 0]

IdleAdmin ==
  [pc |-> "idle", route |-> "", cred |-> NoToken,
   removed |-> {}, queried |-> FALSE, status |-> 0,
   public_files |-> 0, private_files |-> 0, total |-> 0]

\* the seeded accounts: two users and one admin
SeedUsers ==
  {[id |-> 1, name |-> "n1", email |-> "u1@x", password |-> <<"bcrypt", "p1">>,
    role |-> "user", created_at |-> 0],
   [id |-> 2, name |-> "n2", email |-> "u2@x", password |-> <<"bcrypt", "p2">>,
    role |-> "user", created_at |-> 0],
   [id |-> 3, name |-> "n3", email |-> "adm@x", password |-> <<"bcrypt", "p3">>,
    role |-> "admin", created_at |-> 0]}

NoResp == [route |-> "", status |-> 0, users |-> {}, token |-> NoToken]

Init ==
  /\ now = 0
  /\ assets = {}
  /\ s3 = {}
  /\ disk = {}
  /\ up = [u \in UploadIds |-> IdleUpload]
  /\ del = [d \in DeleteIds |-> IdleDelete]
  /\ adm = [a \in AdminIds |-> IdleAdmin]
  /\ users = SeedUsers
  /\ nextUid = 4
  /\ authResp = NoResp

\* the requests received so far
Started ==
  Cardinality({u \in UploadIds : up[u].pc # "idle"})
  + Cardinality({d \in DeleteIds : del[d].pc # "idle"})
  + Cardinality({a \in AdminIds : adm[a].pc # "idle"})

\* Date.now() advances.  It is the wall clock in milliseconds: two reads,
\* however far apart, may return the same value.
Tick ==
  /\ now < MaxTime
  /\ now' = now + 1
  /\ UNCHANGED <<assets, s3, disk, up, del, adm, users, nextUid, authResp>>

(***************************************************************************)
(* POST /assets/upload  (routes/assets.js)                                 *)
(***************************************************************************)
\* the request is answered; of its inputs, only what names the files of a
\* stored asset or of a failed transfer is kept
UploadDone(u, status, message, log, failed) ==
  up' = [up EXCEPT ![u] = [IdleUpload EXCEPT !.pc = "done",
                             !.filename = IF failed \in {"none", "transfer"}
                                          THEN up[u].filename ELSE <<>>,
                             !.key = IF failed \in {"none", "transfer"}
                                     THEN up[u].key ELSE <<>>,
                             !.status = status, !.message = message,
                             !.log = log, !.failed = failed]]

\* the row INSERT INTO assets ... RETURNING * adds; the id is fresh per row
AssetRow(u) ==
  [id |-> u, filename |-> up[u].filename, filepath |-> FileUrl(up[u].key),
   uploader_id |-> up[u].cred.id, permissions |-> ParsePermissions(up[u].perm)]

\* authenticateToken, then multer: fileFilter, then the file is staged under
\* the name diskStorage gives it.  An error of fileFilter goes to next(err):
\* no error middleware is installed, so Express' default one answers 500.
UploadReceive(u, creds, perms) ==
  /\ up[u].pc = "idle"
  /\ IF u = 1 THEN TRUE ELSE up[u - 1].pc # "idle"
  /\ Started < MaxRequests
  /\ \E cred \in creds, mime \in MimeTypes, orig \in OrigNames, perm \in perms :
       IF authenticateToken(cred) # 0
       THEN /\ UploadDone(u, authenticateToken(cred), "", "", "auth")
            /\ disk' = disk
       ELSE IF ~fileFilter(mime)
       THEN /\ UploadDone(u, 500, "Only JPEG, PNG, and PDF files are allowed",
                          "express", "filter")
            /\ disk' = disk
       ELSE /\ up' = [up EXCEPT ![u] = [IdleUpload EXCEPT !.pc = "staged",
                         !.cred = cred, !.mime = mime, !.perm = perm,
                         !.filename = MulterFilename(now, orig)]]
            /\ disk' = disk \cup {StagedPath(MulterFilename(now, orig))}
  /\ UNCHANGED <<now, assets, s3, del, adm, users, nextUid, authResp>>

\* lines 50-88: the handler up to `await parallelUpload.done()`.  A body
\* permissions of "null" parses to null and `permissions.public` throws.
UploadHandle(u) ==
  /\ up[u].pc = "staged"
  /\ IF ParsePermissions(up[u].perm) = "null"
     THEN UploadDone(u, 500, "Cannot read properties of null", "Upload error:",
                     "permissions")
     ELSE up' = [up EXCEPT ![u].pc = "transfer",
                           ![u].key = S3Key(now, up[u].filename),
                           ![u].opened = StagedPath(up[u].filename) \in disk]
  /\ UNCHANGED <<now, assets, s3, disk, del, adm, users, nextUid, authResp>>

\* lines 90-95: the transfer ends.  It can succeed only when the read stream
\* found the staged file; then fs.unlinkSync removes the staged file, and
\* throws when another upload of the same staged name removed it already.
UploadTransfer(u) ==
  /\ up[u].pc = "transfer"
  /\ \/ /\ up[u].opened
        /\ s3' = s3 \cup {up[u].key}
        /\ IF StagedPath(up[u].filename) \in disk
           THEN /\ disk' = disk \ {StagedPath(up[u].filename)}
                /\ up' = [up EXCEPT ![u].pc = "insert"]
           ELSE /\ disk' = disk
                /\ UploadDone(u, 500, "ENOENT: no such file or directory",
                              "Upload error:", "unlink")
     \/ /\ \E msg \in ErrMessages :
             UploadDone(u, 500, UploadMessage(msg), "Upload error:", "transfer")
        /\ UNCHANGED <<s3, disk>>
  /\ UNCHANGED <<now, assets, del, adm, users, nextUid, authResp>>

\* lines 98-121: the INSERT ends
UploadInsert(u) ==
  /\ up[u].pc = "insert"
  /\ \/ /\ assets' = assets \cup {AssetRow(u)}
        /\ UploadDone(u, 200, "File uploaded successfully to S3", "", "none")
     \/ /\ \E msg \in ErrMessages :
             UploadDone(u, 500, UploadMessage(msg), "Upload error:", "insert")
        /\ assets' = assets
  /\ UNCHANGED <<now, s3, disk, del, adm, users, nextUid, authResp>>

(***************************************************************************)
(* DELETE /assets/:filename  (routes/assets.js)                            *)
(***************************************************************************)
\* WHERE filename = $1 AND uploader_id = $2
OwnerWhereMut(row, filename, userId) == row.filename = filename
OwnerWhere(row, filename, userId) ==
  row.filename = filename /\ row.uploader_id = userId

\* the table after DELETE FROM assets WHERE ... RETURNING * matched `rows`
DeleteFromMut(table, rows) == table
DeleteFrom(table, rows) == table \ rows

RowIds(rows) == {r.id : r \in rows}

\* lines 141-155: authenticateToken, the DELETE query, 404 when it matched
\* nothing, else the key of rows[0] (any of the rows returned)
DeleteQuery(d) ==
  /\ del[d].pc = "idle"
  /\ IF d = 1 THEN TRUE ELSE del[d - 1].pc # "idle"
  /\ Started < MaxRequests
  /\ \E cred \in DeleteCreds, filename \in Filenames :
       LET r == [del[d] EXCEPT !.cred = cred, !.filename = filename]
           matched == {row \in assets : OwnerWhere(row, filename, cred.id)}
           seen == [r EXCEPT
                      !.own = RowIds({row \in assets : row.filename = filename
                                        /\ row.uploader_id = cred.id}),
                      !.foreign = RowIds({row \in assets : row.filename = filename
                                            /\ row.uploader_id # cred.id})]
       IN
       IF authenticateToken(cred) # 0
       THEN /\ del' = [del EXCEPT ![d] = [IdleDelete EXCEPT !.pc = "done",
                          !.status = authenticateToken(cred)]]
            /\ assets' = assets
       ELSE \/ /\ del' = [del EXCEPT ![d] = [seen EXCEPT !.pc = "done",
                             !.status = 500, !.dbfail = TRUE]]
               /\ assets' = assets
            \/ /\ assets' = DeleteFrom(assets, matched)
               /\ IF matched = {}
                  THEN del' = [del EXCEPT ![d] = [seen EXCEPT !.pc = "done",
                                  !.status = 404]]
                  ELSE \E first \in matched :
                         del' = [del EXCEPT ![d] = [seen EXCEPT !.pc = "s3delete",
                                   !.removed = RowIds(matched),
                                   !.key = KeyOfUrl(first.filepath)]]
  /\ UNCHANGED <<now, s3, disk, up, adm, users, nextUid, authResp>>

\* lines 158-168: the DeleteObjectCommand ends
DeleteS3(d) ==
  /\ del[d].pc = "s3delete"
  /\ \/ /\ s3' = s3 \ {del[d].key}
        /\ del' = [del EXCEPT ![d].pc = "done", ![d].status = 200,
                           ![d].s3calls = 1, ![d].key = <<>>]
     \/ /\ s3' = s3
        /\ del' = [del EXCEPT ![d].pc = "done", ![d].status = 500,
                           ![d].s3calls = 1, ![d].key = <<>>]
  /\ UNCHANGED <<now, assets, disk, up, adm, users, nextUid, authResp>>

(***************************************************************************)
(* routes/admin.js                                                         *)
(***************************************************************************)
AdminStart(a) ==
  /\ adm[a].pc = "idle"
  /\ IF a = 1 THEN TRUE ELSE adm[a - 1].pc # "idle"
  /\ Started < MaxRequests

\* a middleware answered: the handler of the route never runs
AdminRefused(a, route, cred) ==
  adm' = [adm EXCEPT ![a].pc = "done", ![a].cred = cred,
                     ![a].status = AdminChain(cred)]

\* DELETE /admin/assets/:filename: the DELETE has no owner filter; the file
\* is removed "from filesystem if present", the row's filepath being its URL
AdminDelete(a) ==
  /\ AdminStart(a)
  /\ \E cred \in AdminCreds, filename \in Filenames :
       LET matched == {row \in assets : row.filename = filename}
           r == [adm[a] EXCEPT !.pc = "done", !.route = "delete", !.cred = cred,
                               !.queried = TRUE,
                               !.total = Cardinality(matched)]
       IN
       IF AdminChain(cred) # 0
       THEN AdminRefused(a, "delete", cred) /\ UNCHANGED <<assets, disk>>
       ELSE \/ /\ adm' = [adm EXCEPT ![a] = [r EXCEPT !.status = 500]]
               /\ UNCHANGED <<assets, disk>>
            \/ /\ assets' = DeleteFrom(assets, matched)
               /\ IF matched = {}
                  THEN /\ adm' = [adm EXCEPT ![a] = [r EXCEPT !.status = 404]]
                       /\ disk' = disk
                  ELSE \E first \in matched :
                         /\ disk' = IF first.filepath \in disk
                                    THEN disk \ {first.filepath} ELSE disk
                         /\ adm' = [adm EXCEPT ![a] = [r EXCEPT !.status = 200,
                                      !.removed = RowIds(matched)]]
  /\ UNCHANGED <<now, s3, up, del, users, nextUid, authResp>>

\* GET /admin/assets
AdminList(a) ==
  /\ AdminStart(a)
  /\ \E cred \in AdminCreds :
       IF AdminChain(cred) # 0
       THEN AdminRefused(a, "assets", cred)
       ELSE \E ok \in BOOLEAN :
              adm' = [adm EXCEPT ![a].pc = "done", ![a].route = "assets",
                        ![a].cred = cred, ![a].queried = TRUE,
                        ![a].status = IF ok THEN 200 ELSE 500]
  /\ UNCHANGED <<now, assets, s3, disk, up, del, users, nextUid, authResp>>

\* (permissions ->> 'public')::boolean::int of a row: SqlNull when the
\* object has no member `public`, "error" when the text is no boolean
PublicInt(row) ==
  CASE row.permissions = "true" -> 1
    [] row.permissions = "false" -> 0
    [] row.permissions = "absent" -> SqlNull
    [] OTHER -> 0 - 2

CastError(table) == \E row \in table : PublicInt(row) = 0 - 2

\* SUM(...) over the table: NULL when no row has a non-NULL value
SumPublic(table) ==
  IF \A row \in table : PublicInt(row) = SqlNull THEN SqlNull
  ELSE Cardinality({row \in table : PublicInt(row) = 1})

\* COUNT(*) - SUM(...): NULL when the sum is
CountMinusSum(table) ==
  IF SumPublic(table) = SqlNull THEN SqlNull
  ELSE Cardinality(table) - SumPublic(table)

\* x || 0
OrZero(x) == IF x = SqlNull \/ x = 0 THEN 0 ELSE x

\* GET /admin/stats/visibility
AdminVisibility(a) ==
  /\ AdminStart(a)
  /\ \E cred \in AdminCreds :
       IF AdminChain(cred) # 0
       THEN AdminRefused(a, "visibility", cred)
       ELSE LET r == [adm[a] EXCEPT !.pc = "done", !.route = "visibility",
                        !.cred = cred, !.queried = TRUE,
                        !.total = Cardinality(assets)]
            IN IF CastError(assets)
               THEN adm' = [adm EXCEPT ![a] = [r EXCEPT !.status = 500]]
               ELSE adm' = [adm EXCEPT ![a] = [r EXCEPT !.status = 200,
                              !.public_files = OrZero(SumPublic(assets)),
                              !.private_files = OrZero(CountMinusSum(assets))]]
  /\ UNCHANGED <<now, assets, s3, disk, up, del, users, nextUid, authResp>>

(***************************************************************************)
(* routes/auth.js, GET /profile (server.js), GET /admin/users              *)
(***************************************************************************)
RegNames == {"n"}
RegEmails == {"u1@x", "a@x", "b@x"}
Passwords == {"p1", "pw"}

UserColumns == {"id", "name", "email", "password", "role", "created_at"}

\* bcrypt.hash(password, 10) and bcrypt.compare(password, hash)
BcryptHash(password) == <<"bcrypt", password>>
BcryptCompare(password, hash) == hash = BcryptHash(password)

\* SELECT <columns> of a row
Select(row, columns) == [c \in columns |-> row[c]]

\* the columns of the user POST /auth/register answers: RETURNING *
RegisterReturning == UserColumns

\* POST /auth/register
Register ==
  /\ nextUid < 4 + MaxRegs
  /\ \E name \in RegNames, email \in RegEmails, password \in Passwords :
       IF \E row \in users : row.email = email
       THEN /\ authResp' = [NoResp EXCEPT !.route = "register", !.status = 400]
            /\ UNCHANGED <<users, nextUid>>
       ELSE \/ /\ authResp' = [NoResp EXCEPT !.route = "register", !.status = 500]
               /\ UNCHANGED <<users, nextUid>>
            \/ LET row == [id |-> nextUid, name |-> name, email |-> email,
                           password |-> BcryptHash(password), role |-> "user",
                           created_at |-> now]
               IN /\ users' = users \cup {row}
                  /\ nextUid' = nextUid + 1
                  /\ authResp' = [NoResp EXCEPT !.route = "register",
                                    !.status = 201,
                                    !.users = {Select(row, RegisterReturning)}]
  /\ UNCHANGED assetVars

\* POST /auth/login
Login ==
  /\ \E email \in RegEmails, password \in Passwords :
       LET found == {row \in users : row.email = email} IN
       IF found = {}
       THEN authResp' = [NoResp EXCEPT !.route = "login", !.status = 400]
       ELSE \E row \in found :
              IF ~BcryptCompare(password, row.password)
              THEN authResp' = [NoResp EXCEPT !.route = "login", !.status = 400]
              ELSE authResp' = [NoResp EXCEPT !.route = "login", !.status = 200,
                                  !.token = Jwt(row.id, row.role)]
  /\ UNCHANGED <<users, nextUid>>
  /\ UNCHANGED assetVars

\* the tokens /auth/login can have issued, and the two refused credentials
IssuedCreds == {NoToken, BadToken} \cup {Jwt(row.id, row.role) : row \in users}

\* GET /profile
Profile ==
  /\ \E cred \in IssuedCreds :
       IF authenticateToken(cred) # 0
       THEN authResp' = [NoResp EXCEPT !.route = "profile",
                           !.status = authenticateToken(cred)]
       ELSE authResp' = [NoResp EXCEPT !.route = "profile", !.status = 200,
              !.users = {Select(row, {"id", "name", "email", "role"}) :
                           row \in {r \in users : r.id = cred.id}}]
  /\ UNCHANGED <<users, nextUid>>
  /\ UNCHANGED assetVars

\* GET /admin/users
AdminUsers ==
  /\ \E cred \in IssuedCreds :
       IF AdminChain(cred) # 0
       THEN authResp' = [NoResp EXCEPT !.route = "users", !.status = AdminChain(cred)]
       ELSE authResp' = [NoResp EXCEPT !.route = "users", !.status = 200,
              !.users = {Select(row, {"id", "name", "email", "role", "created_at"}) :
                           row \in users}]
  /\ UNCHANGED <<users, nextUid>>
  /\ UNCHANGED assetVars

(***************************************************************************)
(* Specifications                                                          *)
(***************************************************************************)
\* uploads, owner deletes and admin requests, interleaved
Next ==
  \/ Tick
  \/ \E u \in UploadIds : UploadReceive(u, UploadCreds, LifecyclePerms)
  \/ \E u \in UploadIds : UploadHandle(u)
  \/ \E u \in UploadIds : UploadTransfer(u)
  \/ \E u \in UploadIds : UploadInsert(u)
  \/ \E d \in DeleteIds : DeleteQuery(d)
  \/ \E d \in DeleteIds : DeleteS3(d)
  \/ \E a \in AdminIds : AdminDelete(a)
  \/ \E a \in AdminIds : AdminList(a)
  \/ \E a \in AdminIds : AdminVisibility(a)

Spec == Init /\ [][Next]_vars

\* uploads with every permissions body, and the visibility statistics
NextStats ==
  \/ \E u \in UploadIds : UploadReceive(u, {Jwt(1, "user")}, PermInputs)
  \/ \E u \in UploadIds : UploadHandle(u)
  \/ \E u \in UploadIds : UploadTransfer(u)
  \/ \E u \in UploadIds : UploadInsert(u)
  \/ \E a \in AdminIds : AdminVisibility(a)

SpecStats == Init /\ [][NextStats]_vars

\* accounts
NextAuth == Register \/ Login \/ Profile \/ AdminUsers

SpecAuth == Init /\ [][NextAuth]_vars

(***************************************************************************)
(* Claims                                                                  *)
(***************************************************************************)
Answered(r) == r.pc = "done"
ByUser(r) == r.cred.kind = "jwt"

\* C1: every row of the ledger has a locator whose object is in the object
\* store, in every reachable state.  (Stated as claimed; the code breaks it
\* when two uploads get the same storage key.)
C1_NoDanglingRow == \A row \in assets : KeyOfUrl(row.filepath) \in s3

\* C2: after an owner delete or an admin delete that answered 200, the
\* object of every row it removed is gone from the store, unless a row
\* still refers to it.  (Stated as claimed; the admin delete never calls
\* the object store.)
C2_DeleteRemovesObject ==
  /\ \A d \in DeleteIds :
       Answered(del[d]) /\ del[d].status = 200 =>
         \A id \in del[d].removed :
           up[id].key \in s3 => \E row \in assets : KeyOfUrl(row.filepath) = up[id].key
  /\ \A a \in AdminIds :
       Answered(adm[a]) /\ adm[a].route = "delete" /\ adm[a].status = 200 =>
         \A id \in adm[a].removed :
           up[id].key \in s3 => \E row \in assets : KeyOfUrl(row.filepath) = up[id].key

\* C3: an upload whose transfer to the object store failed has answered an
\* error, has no row in the ledger, and its staged copy is gone from the
\* uploads directory.  (Stated as claimed; the code never removes the copy.)
C3_FailedTransferLeavesNothing ==
  \A u \in UploadIds :
    Answered(up[u]) /\ up[u].failed = "transfer" =>
      /\ up[u].status >= 400
      /\ ~\E row \in assets : row.id = u
      /\ StagedPath(up[u].filename) \notin disk

\* what an upload reports: the response and the line it logs
Outcome(u) == <<up[u].status, up[u].message, up[u].log>>

\* C4: an upload whose transfer succeeded and whose insert failed reports an
\* outcome different from that of an upload whose transfer failed.  (Stated
\* as claimed; both leave through the same catch.)
C4_OrphanReportedDistinctly ==
  \A u, v \in UploadIds :
    /\ Answered(up[u]) /\ up[u].failed = "insert"
    /\ Answered(up[v]) /\ up[v].failed = "transfer"
    => Outcome(u) # Outcome(v)

SameTarget(d, e) ==
  /\ d # e
  /\ Answered(del[d]) /\ Answered(del[e])
  /\ ByUser(del[d])
  /\ del[d].cred = del[e].cred
  /\ del[d].filename = del[e].filename

\* C5, as claimed: of two answered owner deletes of one owner and filename
\* whose ledger queries were answered and of which one found the asset,
\* exactly one answered 200 and the other 404.
C5_ExactlyOneSucceeds ==
  \A d, e \in DeleteIds :
    /\ SameTarget(d, e)
    /\ ~del[d].dbfail /\ ~del[e].dbfail
    /\ del[d].own # {} \/ del[e].own # {}
    =>
      \/ del[d].status = 200 /\ del[e].status = 404
      \/ del[d].status = 404 /\ del[e].status = 200

\* C5, amended: the ledger delete is atomic, so no row is removed by two
\* requests; a delete that removed a row answers 200, or 500 when its
\* object-store delete failed; one that removed none answers 404, or 500
\* when its ledger query failed, and calls the object store never.
C5_AtMostOneRemoves ==
  /\ \A d, e \in DeleteIds : d # e => del[d].removed \cap del[e].removed = {}
  /\ \A d \in DeleteIds, a \in AdminIds : del[d].removed \cap adm[a].removed = {}
  /\ \A d \in DeleteIds :
       Answered(del[d]) /\ ByUser(del[d]) =>
         /\ del[d].removed # {} => del[d].status \in {200, 500} /\ del[d].s3calls = 1
         /\ del[d].removed = {} =>
              /\ del[d].status = (IF del[d].dbfail THEN 500 ELSE 404)
              /\ del[d].s3calls = 0
         /\ ~del[d].dbfail => del[d].removed = del[d].own

C5_Witness ==
  \E d, e \in DeleteIds :
    /\ SameTarget(d, e)
    /\ del[d].status = 200 /\ del[d].removed # {}
    /\ del[e].status = 404

\* the owner delete d is received in this step, by a user who owns no row of
\* the filename while another user does, and the ledger answers the query
NonOwnerDeleteStep(d) ==
  /\ del[d].pc = "idle" /\ del'[d].pc # "idle"
  /\ ByUser(del'[d])
  /\ ~del'[d].dbfail
  /\ del'[d].own = {} /\ del'[d].foreign # {}

\* C6: an owner delete by a user who does not own the named asset answers
\* 404 at once, and the ledger and the object store are as they were: no
\* row is removed and no object-store delete is issued.
C6_NonOwnerDeleteChangesNothing ==
  [][\A d \in DeleteIds :
       NonOwnerDeleteStep(d) =>
         /\ del'[d].pc = "done" /\ del'[d].status = 404
         /\ del'[d].removed = {} /\ del'[d].s3calls = 0
         /\ assets' = assets /\ s3' = s3]_vars

C6_Witness ==
  \E d \in DeleteIds :
    /\ Answered(del[d]) /\ ByUser(del[d]) /\ ~del[d].dbfail
    /\ del[d].own = {} /\ del[d].foreign # {}
    /\ del[d].status = 404
    /\ del[d].foreign \subseteq RowIds(assets)

\* C7: an /admin request queries the ledger only with a verified token of
\* role admin; role "user" is answered 403 and a token without role 401,
\* with no row read or removed; an admin's delete removes every row of the
\* filename, whoever owns it.
C7_AdminRoutesGated ==
  \A a \in AdminIds :
    Answered(adm[a]) =>
      /\ adm[a].queried => ByUser(adm[a]) /\ adm[a].cred.role = "admin"
      /\ adm[a].cred.kind = "none" => adm[a].status = 401
      /\ adm[a].cred.kind = "bad" => adm[a].status = 403
      /\ ByUser(adm[a]) /\ adm[a].cred.role = "user" => adm[a].status = 403
      /\ ByUser(adm[a]) /\ adm[a].cred.role = "" => adm[a].status = 401
      /\ ~adm[a].queried => adm[a].removed = {}
      /\ adm[a].route = "delete" /\ adm[a].status = 200 =>
           adm[a].total > 0 /\ Cardinality(adm[a].removed) = adm[a].total
      /\ adm[a].route = "delete" /\ adm[a].status = 404 => adm[a].total = 0

C7_Witness ==
  \E a \in AdminIds :
    /\ Answered(adm[a]) /\ adm[a].route = "delete" /\ adm[a].status = 200
    /\ adm[a].cred = Jwt(3, "admin")
    /\ \E u \in adm[a].removed : up[u].status = 200

\* C8: GET /admin/stats/visibility answers public_files and private_files
\* whose sum is the number of rows of the ledger.  (Stated as claimed; the
\* code answers 0 and 0 when no row has a member `public`.)
C8_VisibilitySumsToTotal ==
  \A a \in AdminIds :
    Answered(adm[a]) /\ adm[a].route = "visibility" /\ adm[a].status = 200 =>
      adm[a].public_files + adm[a].private_files = adm[a].total

\* C9: an upload of a content type outside the allow-list is answered 400,
\* with no staged file, no object stored and no row inserted.  (Stated as
\* claimed; the code answers 500.)
C9_BadTypeRejected400 ==
  \A u \in UploadIds :
    Answered(up[u]) /\ up[u].failed = "filter" =>
      /\ up[u].status = 400
      /\ ~\E row \in assets : row.id = u
      /\ up[u].filename = <<>> /\ up[u].key = <<>>

\* C10: no response carries a user's password.  (Stated as claimed; POST
\* /auth/register answers the whole row.)
C10_NoPasswordInResponse ==
  \A user \in authResp.users : "password" \notin DOMAIN user

=============================================================================
